---- MODULE Spec2Model ----
(***************************************************************************)
(* Model of the Component base class of src/framework.ts (whizz).          *)
(*                                                                         *)
(* The host is single threaded: a call of connectedCallback, reRender or   *)
(* disconnectedCallback runs to its first await in one step, and every     *)
(* continuation after an await is a step of its own, so other calls can    *)
(* start between two steps of a call.  The component class modelled        *)
(* defines every lifecycle hook, a static stylesheet and an instance       *)
(* stylesheet, and no styles() method (as the example classes do).         *)
(* User code (render and the hooks) is the environment: the class's render *)
(* method is a plain function, an async function or an async generator     *)
(* function, each render chooses its outcome, and the hooks return         *)
(* normally and call nothing back.                                         *)
(***************************************************************************)
EXTENDS Integers, Sequences, FiniteSets, TLC

VARIABLES props, _rendering, _connected, attributes, innerHTML, head, render, calls

vars == <<props, _rendering, _connected, attributes, innerHTML, head, render, calls>>

(* Bounds of the model: the instances of the class, the calls of        *)
(* connectedCallback and reRender made in all (a disconnectedCallback    *)
(* needs a connection before it and is not counted), and the chunks one   *)
(* generator render yields                                                *)
NumInst == 2
MaxCalls == 2
MaxYields == 2

Inst == 1..NumInst

(***************************************************************************)
(* Values                                                                  *)
(***************************************************************************)

(* A props value: what JSON.parse returns, or a string *)
Num(n) == [tag |-> "number", num |-> n, str |-> <<>>]
Str(s) == [tag |-> "string", num |-> 0, str |-> s]
Bool(b) == [tag |-> "boolean", num |-> IF b THEN 1 ELSE 0, str |-> <<>>]
JsNull == [tag |-> "null", num |-> 0, str |-> <<>>]

(* props = {} *)
EmptyProps == [k \in {} |-> JsNull]

(* { ...a, ...b } *)
Merge(a, b) == [k \in DOMAIN a \cup DOMAIN b |-> IF k \in DOMAIN b THEN b[k] ELSE a[k]]

(* A rendered string: the value render of call c resolved or returned   *)
(* (part 0) or its k-th yielded chunk (part k)                           *)
Html(c, k) == [call |-> c, part |-> k]

(* The falsy render results: '', null, undefined *)
Falsy == [call |-> 0, part |-> 0]

Truthy(v) == v # Falsy

(***************************************************************************)
(* Pure helpers                                                            *)
(***************************************************************************)

Digits == {"0", "1", "2", "3", "4", "5", "6", "7", "8", "9"}

DigitValue == [d \in Digits |-> CHOOSE n \in 0..9 : <<"0", "1", "2", "3", "4", "5", "6", "7", "8", "9">>[n + 1] = d]

RECURSIVE DecimalValue(_)
DecimalValue(s) ==
    IF s = <<>> THEN 0
    ELSE 10 * DecimalValue(SubSeq(s, 1, Len(s) - 1)) + DigitValue[s[Len(s)]]

Whitespace == {" "}

RECURSIVE Trim(_)
Trim(s) ==
    IF s # <<>> /\ s[1] \in Whitespace THEN Trim(Tail(s))
    ELSE IF s # <<>> /\ s[Len(s)] \in Whitespace THEN Trim(SubSeq(s, 1, Len(s) - 1))
    ELSE s

(* JSON.parse on the texts of the model's alphabet: integers without   *)
(* leading zero, true, false, null and strings without escapes, with   *)
(* surrounding white space; anything else throws                       *)
JsonParse(text) ==
    LET s == Trim(text) IN
    IF s = <<"t", "r", "u", "e">> THEN [ok |-> TRUE, val |-> Bool(TRUE)]
    ELSE IF s = <<"f", "a", "l", "s", "e">> THEN [ok |-> TRUE, val |-> Bool(FALSE)]
    ELSE IF s = <<"n", "u", "l", "l">> THEN [ok |-> TRUE, val |-> JsNull]
    ELSE IF /\ Len(s) >= 1
            /\ \A n \in 1..Len(s) : s[n] \in Digits
            /\ (Len(s) > 1 => s[1] # "0")
         THEN [ok |-> TRUE, val |-> Num(DecimalValue(s))]
    ELSE IF /\ Len(s) >= 2
            /\ s[1] = "\"" /\ s[Len(s)] = "\""
            /\ \A n \in 2..(Len(s) - 1) : s[n] \notin {"\"", "\\"}
         THEN [ok |-> TRUE, val |-> Str(SubSeq(s, 2, Len(s) - 1))]
    ELSE [ok |-> FALSE, val |-> JsNull]

Lower == <<"a", "b", "c", "d", "e", "f", "g", "h", "i", "j", "k", "l", "m", "n", "o", "p", "q", "r", "s", "t", "u", "v", "w", "x", "y", "z">>
Upper == <<"A", "B", "C", "D", "E", "F", "G", "H", "I", "J", "K", "L", "M", "N", "O", "P", "Q", "R", "S", "T", "U", "V", "W", "X", "Y", "Z">>

IsLower(c) == \E n \in 1..Len(Lower) : Lower[n] = c

ToUpperCase(c) == IF IsLower(c) THEN Upper[CHOOSE n \in 1..Len(Lower) : Lower[n] = c] ELSE c

(* str.replace(/-([a-z])/g, (_, letter) => letter.toUpperCase()) *)
RECURSIVE _toCamelCase(_)
_toCamelCase(str) ==
    IF str = <<>> THEN <<>>
    ELSE IF Len(str) >= 2 /\ str[1] = "-" /\ IsLower(str[2])
         THEN <<ToUpperCase(str[2])>> \o _toCamelCase(SubSeq(str, 3, Len(str)))
    ELSE <<str[1]>> \o _toCamelCase(Tail(str))

(* the attribute text taken as it is, JSON.parse forgotten *)
ParseAttrRawOnly(value) == Str(value)

(* try { JSON.parse(attr.value) } catch { attr.value } *)
ParseAttr(value) ==
    LET r == JsonParse(value) IN IF r.ok THEN r.val ELSE Str(value)

(* _extractProps: the loop over this.attributes, in order *)
RECURSIVE _extractProps(_, _)
_extractProps(p, attrs) ==
    IF attrs = <<>> THEN p
    ELSE LET attr == Head(attrs)
             key == _toCamelCase(attr.name)
         IN _extractProps(Merge(p, [k \in {key} |-> ParseAttr(attr.value)]), Tail(attrs))

(* id of the static style element: `style-${this.constructor.name}` *)
StyleId == "style-DataFetcher"

(* document.getElementById(id), on the style elements of the head *)
GetElementById(h, id) == \E n \in 1..Len(h) : h[n].id = id

(* a style element added at every connection *)
AddStylesheetAlways(h, css) == Append(h, [id |-> StyleId, css |-> css])

(* _addStaticStylesheet *)
_addStaticStylesheet(h, css) ==
    IF ~GetElementById(h, StyleId) THEN Append(h, [id |-> StyleId, css |-> css]) ELSE h

(* _updateDOM: innerHTML = html, then the instance stylesheet is prepended *)
_updateDOM(html) == [html |-> html, style |-> TRUE]

(* a _doRender without its guard *)
RenderNeverDropped(i) == FALSE

(* the guard of _doRender: if (this._rendering) return *)
RenderDropped(i) == _rendering[i]

(* const oldProps = { ...this.props }, taken after the merge *)
OldProps(before, merged) == merged

(* a catch that swallows the failure of render *)
RenderFailureSwallowed(threw) == FALSE

(* try { ... } finally { ... } has no catch: _doRender rejects when render *)
(* threw or its promise or generator rejected                            *)
DoRenderRejects(threw) == threw

(* the stylesheet injected before willConnect is called *)
ConnectStepsStyleFirst == <<"extractProps", "stylesheet", "willConnect">>

(* connectedCallback before the initial render: _extractProps,           *)
(* willConnect, _addStaticStylesheet                                      *)
ConnectSteps == <<"extractProps", "willConnect", "stylesheet">>

(* updated called after every render, the initial one too *)
HookAlwaysUpdated(kind) == "updated"

(* the hook called after await this._doRender() *)
HookAfterRender(kind) == IF kind = "reRender" THEN "updated" ELSE "connected"

(***************************************************************************)
(* Inputs                                                                  *)
(***************************************************************************)

(* the argument of reRender *)
Partials == {[k \in {<<"n">>} |-> Num(2)]}

(* what the static stylesheet() returns when call c of instance i calls it *)
StaticCss(i, c) == [inst |-> i, call |-> c]

(* the attributes of the elements: <data-fetcher n="1" data-url="x"> *)
ElementAttributes ==
    <<[name |-> <<"n">>, value |-> <<"1">>],
      [name |-> <<"d", "a", "t", "a", "-", "u", "r", "l">>, value |-> <<"x">>]>>

(* attribute lists for the extraction of props: values JSON.parse takes  *)
(* (1, 42, true, null, "x", 7 in white space) and values it throws on     *)
(* (x, {, 01 and the empty text); names as an HTML document has them, in  *)
(* lower case and different from each other                               *)
AttrLists ==
    { <<>>,
      ElementAttributes,
      <<[name |-> <<"d", "a", "t", "a", "-", "u", "r", "l">>, value |-> <<"{">>],
        [name |-> <<"n">>, value |-> <<"4", "2">>],
        [name |-> <<"a", "-", "b", "-", "c">>, value |-> <<"t", "r", "u", "e">>]>>,
      <<[name |-> <<"n">>, value |-> <<"0", "1">>],
        [name |-> <<"x", "-">>, value |-> <<"\"", "x", "\"">>],
        [name |-> <<"y", "-", "1">>, value |-> <<"n", "u", "l", "l">>]>>,
      <<[name |-> <<"n">>, value |-> <<>>],
        [name |-> <<"d", "a", "t", "a", "-", "u", "r", "l">>, value |-> <<" ", "7", " ">>]>> }

(* what the class's render method is: a function (returns a string, null *)
(* or nothing), an async function (a promise) or an async generator       *)
RenderKinds == {"sync", "promise", "generator"}

(***************************************************************************)
(* State                                                                   *)
(*   calls[i] are the calls made on instance i, in call order; a call is   *)
(*   at "rendering" (inside _doRender, at an await), at "awaiting" (at     *)
(*   await this._doRender(), which has settled), "done" or "rejected".     *)
(*   trace lists what the call has done so far; busy: a render of the      *)
(*   instance was in flight when the call reached _doRender; ran: the call *)
(*   passed the guard of _doRender; threw: its render failed; disc:        *)
(*   disconnectedCallback ran while its render was in flight.              *)
(***************************************************************************)

(* the calls of connectedCallback and reRender made so far *)
RECURSIVE CountAsync(_)
CountAsync(cs) == IF cs = <<>> THEN 0 ELSE (IF Head(cs).kind = "disconnect" THEN 0 ELSE 1) + CountAsync(Tail(cs))

RECURSIVE SumCalls(_)
SumCalls(S) == IF S = {} THEN 0 ELSE LET x == CHOOSE y \in S : TRUE IN CountAsync(calls[x]) + SumCalls(S \ {x})

NumCalls == SumCalls(Inst)

(* the instances are numbered in the order of their first call *)
Created(i) == \A j \in Inst : j < i => calls[j] # <<>>

(* a render of instance i is in flight: a _doRender that passed the guard *)
(* and has not finished                                                    *)
InFlight(i) == \E c \in 1..Len(calls[i]) : calls[i][c].pc = "rendering"

NewCall(kind) ==
    [kind |-> kind, pc |-> "done", busy |-> FALSE, ran |-> FALSE,
     threw |-> FALSE, yields |-> 0, ret |-> Falsy,
     before |-> EmptyProps, oldProps |-> EmptyProps, disc |-> FALSE, trace |-> <<>>]

Init ==
    /\ props = [i \in Inst |-> EmptyProps]
    /\ _rendering = [i \in Inst |-> FALSE]
    /\ _connected = [i \in Inst |-> FALSE]
    /\ attributes = [i \in Inst |-> ElementAttributes]
    /\ innerHTML = [i \in Inst |-> [html |-> Falsy, style |-> FALSE]]
    /\ head = <<>>
    /\ render \in RenderKinds
    /\ calls = [i \in Inst |-> <<>>]

(***************************************************************************)
(* _doRender up to its first await, called by the call r that is being    *)
(* added to instance i as its call number c                               *)
(***************************************************************************)
_doRender(i, c, r) ==
    IF RenderDropped(i)
    THEN (* if (this._rendering) return *)
         /\ calls' = [calls EXCEPT ![i] = Append(@, [r EXCEPT !.pc = "awaiting", !.busy = InFlight(i)])]
         /\ UNCHANGED <<_rendering, innerHTML>>
    ELSE LET r1 == [r EXCEPT !.busy = InFlight(i), !.ran = TRUE,
                             !.trace = r.trace \o <<"willRender", "render">>]
         IN \/ (* render() throws; finally resets the flag *)
               /\ render = "sync"
               /\ calls' = [calls EXCEPT ![i] = Append(@, [r1 EXCEPT !.pc = "awaiting", !.threw = TRUE])]
               /\ UNCHANGED <<_rendering, innerHTML>>
            \/ (* render() returns a string, null or nothing *)
               /\ render = "sync"
               /\ \E result \in {Falsy, Html(c, 0)} :
                    IF Truthy(result)
                    THEN /\ innerHTML' = [innerHTML EXCEPT ![i] = _updateDOM(result)]
                         /\ calls' = [calls EXCEPT ![i] = Append(@, [r1 EXCEPT !.pc = "awaiting", !.ret = result,
                                                                              !.trace = r1.trace \o <<"dom">>])]
                    ELSE /\ calls' = [calls EXCEPT ![i] = Append(@, [r1 EXCEPT !.pc = "awaiting"])]
                         /\ UNCHANGED innerHTML
               /\ UNCHANGED _rendering
            \/ (* render() returns a promise or an async generator *)
               /\ render # "sync"
               /\ _rendering' = [_rendering EXCEPT ![i] = TRUE]
               /\ calls' = [calls EXCEPT ![i] = Append(@, [r1 EXCEPT !.pc = "rendering"])]
               /\ UNCHANGED innerHTML

(***************************************************************************)
(* Operations                                                              *)
(***************************************************************************)

(* a connectedCallback without the early return on this._connected *)
connectedCallbackUnguarded(i) ==
    /\ NumCalls < MaxCalls /\ Created(i)
    /\ _connected' = [_connected EXCEPT ![i] = TRUE]
    /\ props' = [props EXCEPT ![i] = _extractProps(props[i], attributes[i])]
    /\ head' = _addStaticStylesheet(head, StaticCss(i, Len(calls[i]) + 1))
    /\ _doRender(i, Len(calls[i]) + 1,
           [NewCall("connect") EXCEPT !.trace = ConnectSteps])
    /\ UNCHANGED <<attributes, render>>

connectedCallback(i) ==
    /\ NumCalls < MaxCalls /\ Created(i)
    /\ IF _connected[i]
       THEN (* if (this._connected) return *)
            /\ calls' = [calls EXCEPT ![i] = Append(@, NewCall("connect"))]
            /\ UNCHANGED <<props, _rendering, _connected, innerHTML, head>>
       ELSE /\ _connected' = [_connected EXCEPT ![i] = TRUE]
            /\ props' = [props EXCEPT ![i] = _extractProps(props[i], attributes[i])]
            /\ head' = _addStaticStylesheet(head, StaticCss(i, Len(calls[i]) + 1))
            /\ _doRender(i, Len(calls[i]) + 1,
                   [NewCall("connect") EXCEPT !.trace = ConnectSteps])
    /\ UNCHANGED <<attributes, render>>

reRender(i, propsOrFn) ==
    /\ NumCalls < MaxCalls /\ Created(i)
    /\ LET merged == Merge(props[i], propsOrFn) IN
         /\ props' = [props EXCEPT ![i] = merged]
         /\ _doRender(i, Len(calls[i]) + 1,
                [NewCall("reRender") EXCEPT !.before = props[i], !.oldProps = OldProps(props[i], merged)])
    /\ UNCHANGED <<_connected, attributes, head, render>>

(* the calls cs of an instance after a disconnectedCallback: the call it *)
(* adds, and the render it found in flight                                *)
Disconnect(cs) ==
    Append([c \in 1..Len(cs) |->
               IF cs[c].pc = "rendering" THEN [cs[c] EXCEPT !.disc = TRUE] ELSE cs[c]],
           [NewCall("disconnect") EXCEPT !.trace = <<"disconnected">>])

(* a disconnectedCallback that gave up the render in flight *)
disconnectedCallbackCancels(i) ==
    /\ _connected[i]
    /\ _connected' = [_connected EXCEPT ![i] = FALSE]
    /\ _rendering' = [_rendering EXCEPT ![i] = FALSE]
    /\ calls' = [calls EXCEPT ![i] = Disconnect(calls[i])]
    /\ UNCHANGED <<props, attributes, innerHTML, head, render>>

(* the browser calls it when a connected element leaves the document: *)
(* the disconnected hook, then this._connected = false                 *)
disconnectedCallback(i) ==
    /\ _connected[i]
    /\ _connected' = [_connected EXCEPT ![i] = FALSE]
    /\ calls' = [calls EXCEPT ![i] = Disconnect(calls[i])]
    /\ UNCHANGED <<props, _rendering, attributes, innerHTML, head, render>>

(* the flag reset after the try block instead of in finally: a render  *)
(* that fails leaves it set                                              *)
FinishRenderNoFinally(i, c, threw, ret) ==
    /\ _rendering' = [_rendering EXCEPT ![i] = threw]
    /\ calls' = [calls EXCEPT ![i][c].pc = "awaiting", ![i][c].threw = threw, ![i][c].ret = ret]

(* finally { this._rendering = false }, and _doRender settles *)
FinishRender(i, c, threw, ret) ==
    /\ _rendering' = [_rendering EXCEPT ![i] = FALSE]
    /\ calls' = [calls EXCEPT ![i][c].pc = "awaiting", ![i][c].threw = threw, ![i][c].ret = ret]

(* const html = await result; if (html) this._updateDOM(html) *)
PromiseSettles(i, c) ==
    /\ c \in 1..Len(calls[i])
    /\ calls[i][c].pc = "rendering" /\ render = "promise"
    /\ \/ \E html \in {Falsy, Html(c, 0)} :
            /\ _rendering' = [_rendering EXCEPT ![i] = FALSE]
            /\ IF Truthy(html)
               THEN /\ innerHTML' = [innerHTML EXCEPT ![i] = _updateDOM(html)]
                    /\ calls' = [calls EXCEPT ![i][c].pc = "awaiting", ![i][c].ret = html,
                                              ![i][c].trace = @ \o <<"dom">>]
               ELSE /\ calls' = [calls EXCEPT ![i][c].pc = "awaiting"]
                    /\ UNCHANGED innerHTML
       \/ (* the promise rejects *)
          /\ FinishRender(i, c, TRUE, Falsy)
          /\ UNCHANGED innerHTML
    /\ UNCHANGED <<props, _connected, attributes, head, render>>

(* for await (const chunk of result) this._updateDOM(chunk) *)
GeneratorNext(i, c) ==
    /\ c \in 1..Len(calls[i])
    /\ calls[i][c].pc = "rendering" /\ render = "generator"
    /\ \/ (* the generator yields a chunk *)
          /\ calls[i][c].yields < MaxYields
          /\ innerHTML' = [innerHTML EXCEPT ![i] = _updateDOM(Html(c, calls[i][c].yields + 1))]
          /\ calls' = [calls EXCEPT ![i][c].yields = @ + 1, ![i][c].trace = @ \o <<"dom">>]
          /\ UNCHANGED _rendering
       \/ (* the generator returns its final value: the loop ends *)
          /\ FinishRender(i, c, FALSE, Html(c, 0))
          /\ UNCHANGED innerHTML
       \/ (* the generator throws *)
          /\ FinishRender(i, c, TRUE, Falsy)
          /\ UNCHANGED innerHTML
    /\ UNCHANGED <<props, _connected, attributes, head, render>>

(* the continuation after await this._doRender() *)
AfterRender(i, c) ==
    /\ c \in 1..Len(calls[i])
    /\ calls[i][c].pc = "awaiting"
    /\ IF DoRenderRejects(calls[i][c].threw)
       THEN calls' = [calls EXCEPT ![i][c].pc = "rejected"]
       ELSE calls' = [calls EXCEPT ![i][c].pc = "done",
                                   ![i][c].trace = @ \o <<HookAfterRender(calls[i][c].kind)>>]
    /\ UNCHANGED <<props, _rendering, _connected, attributes, innerHTML, head, render>>

Next ==
    \/ \E i \in Inst : connectedCallback(i)
    \/ \E i \in Inst : \E propsOrFn \in Partials : reRender(i, propsOrFn)
    \/ \E i \in Inst : disconnectedCallback(i)
    \/ \E i \in Inst : \E c \in 1..MaxCalls : PromiseSettles(i, c)
    \/ \E i \in Inst : \E c \in 1..MaxCalls : GeneratorNext(i, c)
    \/ \E i \in Inst : \E c \in 1..MaxCalls : AfterRender(i, c)

Spec == Init /\ [][Next]_vars

(***************************************************************************)
(* The extraction of props: elements with the attributes of AttrLists, of *)
(* a class whose render is a plain function                               *)
(***************************************************************************)
InitExtract ==
    /\ props = [i \in Inst |-> EmptyProps]
    /\ _rendering = [i \in Inst |-> FALSE]
    /\ _connected = [i \in Inst |-> FALSE]
    /\ \E attrs \in AttrLists : attributes = [i \in Inst |-> attrs]
    /\ innerHTML = [i \in Inst |-> [html |-> Falsy, style |-> FALSE]]
    /\ head = <<>>
    /\ render = "sync"
    /\ calls = [i \in Inst |-> <<>>]

NextExtract ==
    \/ \E i \in Inst : connectedCallback(i)
    \/ \E i \in Inst : \E propsOrFn \in Partials : reRender(i, propsOrFn)
    \/ \E i \in Inst : disconnectedCallback(i)
    \/ \E i \in Inst : \E c \in 1..MaxCalls : AfterRender(i, c)

SpecExtract == InitExtract /\ [][NextExtract]_vars

(***************************************************************************)
(* Properties                                                              *)
(***************************************************************************)

RECURSIVE Count(_, _)
Count(e, tr) == IF tr = <<>> THEN 0 ELSE (IF Head(tr) = e THEN 1 ELSE 0) + Count(e, Tail(tr))

Has(e, tr) == \E n \in 1..Len(tr) : tr[n] = e

(* n times "dom" *)
Doms(n) == [k \in 1..n |-> "dom"]

Rendering(i) == {c \in 1..Len(calls[i]) : calls[i][c].pc = "rendering"}

(* C1: for one instance at most one render is in flight at any time: no  *)
(* call runs willRender/render while an earlier _doRender of the instance *)
(* has not finished.                                                      *)
C1_OneRenderInFlight ==
    \A i \in Inst :
        /\ Cardinality(Rendering(i)) <= 1
        /\ \A c \in 1..Len(calls[i]) : calls[i][c].busy => ~Has("render", calls[i][c].trace)

(* a render is in flight and a second request has arrived meanwhile *)
C1_Witness ==
    \E i \in Inst : \E c, d \in 1..Len(calls[i]) :
        /\ c < d
        /\ calls[i][c].pc = "rendering"
        /\ calls[i][d].busy /\ calls[i][d].kind = "reRender"

(* C2: a request that arrives while a render of the instance is in flight *)
(* is dropped, not queued: it runs neither willRender nor render, updates  *)
(* no DOM, now or later, and the content of the element is never one it    *)
(* rendered.                                                               *)
C2_BusyRequestDropped ==
    \A i \in Inst :
        /\ \A c \in 1..Len(calls[i]) :
              calls[i][c].busy =>
                  /\ ~calls[i][c].ran
                  /\ ~Has("willRender", calls[i][c].trace)
                  /\ ~Has("render", calls[i][c].trace)
                  /\ ~Has("dom", calls[i][c].trace)
                  /\ calls[i][c].pc # "rendering"
        /\ Truthy(innerHTML[i].html) =>
              /\ innerHTML[i].html.call \in 1..Len(calls[i])
              /\ ~calls[i][innerHTML[i].html.call].busy

(* the render in flight has finished with a DOM update, the dropped       *)
(* request has returned, and the content is still the one of that render  *)
C2_Witness ==
    \E i \in Inst : \E c, d \in 1..Len(calls[i]) :
        /\ calls[i][d].busy /\ calls[i][d].pc = "done"
        /\ calls[i][c].ran /\ calls[i][c].pc = "done"
        /\ Has("dom", calls[i][c].trace)
        /\ innerHTML[i].html.call = c

(* the last call of instance i that passed the guard of _doRender *)
LastRan(i, c) ==
    /\ calls[i][c].ran
    /\ \A d \in 1..Len(calls[i]) : d > c => ~calls[i][d].ran

(* C3: when render is an async generator that yielded a chunk (such as   *)
(* the 'Loading...' one), once the render has finished the content of     *)
(* the element is the value the generator returned.                       *)
C3_GeneratorFinalValueShown ==
    \A i \in Inst : \A c \in 1..Len(calls[i]) :
        ( /\ render = "generator"
          /\ LastRan(i, c)
          /\ calls[i][c].yields >= 1
          /\ calls[i][c].pc \in {"awaiting", "done"}
          /\ ~calls[i][c].threw )
        => innerHTML[i].html = calls[i][c].ret

(* C4 as claimed: updated is called exactly once for each reRender call  *)
(* (that has returned), and never by a connectedCallback.                 *)
C4_UpdatedOncePerReRender ==
    \A i \in Inst : \A c \in 1..Len(calls[i]) :
        /\ (calls[i][c].kind = "reRender" /\ calls[i][c].pc \in {"done", "rejected"})
              => Count("updated", calls[i][c].trace) = 1
        /\ calls[i][c].kind # "reRender" => ~Has("updated", calls[i][c].trace)

(* C4 amended: updated is called at most once per reRender call: exactly *)
(* once when the call's _doRender returned normally, as the last thing    *)
(* the call does (after every DOM update of the render it performed, and  *)
(* without any render when the request was dropped), not at all when the  *)
(* render failed, and never by a connectedCallback.                       *)
C4_UpdatedAfterRender ==
    \A i \in Inst : \A c \in 1..Len(calls[i]) :
        LET r == calls[i][c] IN
        /\ r.kind # "reRender" => ~Has("updated", r.trace)
        /\ r.kind = "reRender" =>
              /\ Count("updated", r.trace) = (IF r.pc = "done" THEN 1 ELSE 0)
              /\ r.pc = "done" => r.trace[Len(r.trace)] = "updated"
              /\ r.pc = "done" => ~r.threw
              /\ r.pc = "rejected" => r.threw

(* a reRender rendered, updated the DOM and then called updated *)
C4_Witness ==
    \E i \in Inst : \E c \in 1..Len(calls[i]) :
        /\ calls[i][c].kind = "reRender" /\ calls[i][c].pc = "done"
        /\ calls[i][c].trace = <<"willRender", "render", "dom", "updated">>

(* C5: the argument of updated is the props as they were before the     *)
(* argument of reRender was merged in.                                    *)
C5_OldPropsAreOld ==
    \A i \in Inst : \A c \in 1..Len(calls[i]) :
        (calls[i][c].kind = "reRender" /\ Has("updated", calls[i][c].trace))
            => calls[i][c].oldProps = calls[i][c].before

(* C6 as claimed: every connectedCallback that passes the connected      *)
(* guard and calls connected has gone through props extraction,           *)
(* willConnect, stylesheet injection, willRender, render and its DOM      *)
(* updates before, in this order.                                         *)
C6_ConnectedAfterInitialRender ==
    \A i \in Inst : \A c \in 1..Len(calls[i]) :
        LET r == calls[i][c] IN
        (r.kind = "connect" /\ Has("connected", r.trace)) =>
            \E n \in 0..Len(r.trace) :
                r.trace = <<"extractProps", "willConnect", "stylesheet", "willRender", "render">>
                              \o Doms(n) \o <<"connected">>

(* C6 amended: a connectedCallback that passes the connected guard does  *)
(* props extraction, willConnect and stylesheet injection in this order;  *)
(* then, if no render of the instance was in flight, willRender, render   *)
(* with its DOM updates and, unless the render failed, connected after    *)
(* the last DOM update; if a render was in flight the initial render is   *)
(* dropped and connected is called without willRender or render.          *)
C6_ConnectOrder ==
    \A i \in Inst : \A c \in 1..Len(calls[i]) :
        LET r == calls[i][c]
            pre == <<"extractProps", "willConnect", "stylesheet">>
            hook == IF r.pc = "done" THEN <<"connected">> ELSE <<>>
        IN (r.kind = "connect" /\ r.trace # <<>>) =>
              /\ r.busy <=> ~r.ran
              /\ r.pc = "done" => ~r.threw
              /\ IF r.ran
                 THEN \E n \in 0..Len(r.trace) :
                          r.trace = pre \o <<"willRender", "render">> \o Doms(n) \o hook
                 ELSE r.trace = pre \o hook

(* a connectedCallback rendered, updated the DOM and called connected *)
C6_Witness ==
    \E i \in Inst : \E c \in 1..Len(calls[i]) :
        /\ calls[i][c].kind = "connect" /\ calls[i][c].pc = "done"
        /\ calls[i][c].ran /\ Has("dom", calls[i][c].trace)
        /\ Has("connected", calls[i][c].trace)

(* a connectedCallback of instance i that passed the connected guard *)
Connects(i) == {c \in 1..Len(calls[i]) : calls[i][c].kind = "connect" /\ calls[i][c].trace # <<>>}

(* C7: a connectedCallback that passes the connected guard sets, for     *)
(* every attribute, props[camelCase(name)] to the JSON-parsed value when  *)
(* the value parses and to the raw text when it does not; a value that    *)
(* does not parse stops neither the other attributes nor willConnect, the *)
(* stylesheet injection and the initial render.                           *)
C7_AttributesBecomeProps ==
    [][\A i \in Inst :
          (~_connected[i] /\ _connected'[i]) =>
              /\ \A n \in 1..Len(attributes[i]) :
                    LET a == attributes[i][n]
                        key == _toCamelCase(a.name)
                        v == JsonParse(a.value)
                    IN /\ key \in DOMAIN props'[i]
                       /\ props'[i][key] = (IF v.ok THEN v.val ELSE Str(a.value))
              /\ LET r == calls'[i][Len(calls'[i])]
                 IN /\ SubSeq(r.trace, 1, 3) = <<"extractProps", "willConnect", "stylesheet">>
                    /\ r.busy \/ Has("render", r.trace)
              /\ head' # <<>>]_vars

(* an element is connected whose first attribute did not parse and whose *)
(* second did: both are props, and the initial render ran                 *)
C7_Witness ==
    \E i \in Inst :
        /\ _connected[i]
        /\ Len(attributes[i]) >= 2
        /\ ~JsonParse(attributes[i][1].value).ok
        /\ JsonParse(attributes[i][2].value).ok
        /\ props[i][_toCamelCase(attributes[i][1].name)] = Str(attributes[i][1].value)
        /\ props[i][_toCamelCase(attributes[i][2].name)] = Num(42)
        /\ Has("render", calls[i][1].trace)

(* C8: when render throws, or its promise or generator rejects, the call *)
(* of reRender or connectedCallback that started the render rejects and   *)
(* calls neither updated nor connected.                                   *)
C8_RenderFailurePropagates ==
    \A i \in Inst : \A c \in 1..Len(calls[i]) :
        LET r == calls[i][c] IN
        /\ r.threw =>
              /\ r.ran
              /\ r.pc \in {"awaiting", "rejected"}
              /\ ~Has("updated", r.trace)
              /\ ~Has("connected", r.trace)
        /\ r.pc = "rejected" => r.threw

(* a generator render threw after a chunk, and the call has rejected *)
C8_Witness ==
    \E i \in Inst : \E c \in 1..Len(calls[i]) :
        /\ render = "generator"
        /\ calls[i][c].threw /\ calls[i][c].pc = "rejected"
        /\ Has("dom", calls[i][c].trace)

StyleElements == {n \in 1..Len(head) : head[n].id = StyleId}

C9_OneStyleElement ==
    /\ Cardinality(StyleElements) <= 1
    /\ (\E i \in Inst : Connects(i) # {}) =>
          /\ Cardinality(StyleElements) = 1
          /\ \E i \in Inst : \E c \in Connects(i) : head[1].css = StaticCss(i, c)

(* C9: the static stylesheet is added to the head once: after any        *)
(* connects, disconnects and reconnects of any instances the head holds   *)
(* exactly one style element with the id of the class, and its content is *)
(* the CSS returned at the first connection (it never changes after).     *)
C9_StylesheetOnce ==
    /\ []C9_OneStyleElement
    /\ [][head # <<>> => head' = head]_vars

(* two instances have connected, the second with another CSS text *)
C9_Witness ==
    \E i, j \in Inst :
        /\ i # j
        /\ Connects(i) # {} /\ Connects(j) # {}
        /\ Len(head) = 1

(* C10: disconnectedCallback cancels nothing: the guard stays set while  *)
(* the render is in flight, connected or not; a promise that resolves     *)
(* after the disconnect still updates the DOM, and so does every chunk a  *)
(* generator yields; a connectedCallback that arrives meanwhile has its   *)
(* render request dropped.                                                *)
C10_NoCancellation ==
    \A i \in Inst : \A c \in 1..Len(calls[i]) :
        LET r == calls[i][c] IN
        /\ r.pc = "rendering" => _rendering[i]
        /\ (r.kind = "connect" /\ r.busy) => ~r.ran
        /\ (render = "promise" /\ r.disc /\ r.pc # "rendering" /\ Truthy(r.ret))
              => (r.trace[Len(r.trace)] = "dom" \/ r.trace[Len(r.trace) - 1] = "dom")
        /\ render = "generator" => r.yields = Count("dom", r.trace)

(* a promise render was in flight at the disconnect, a reconnect was     *)
(* dropped, and the promise then resolved and updated the DOM             *)
C10_Witness ==
    \E i \in Inst : \E c, d \in 1..Len(calls[i]) :
        /\ render = "promise"
        /\ calls[i][c].disc /\ calls[i][c].pc = "awaiting"
        /\ Has("dom", calls[i][c].trace)
        /\ innerHTML[i].html = calls[i][c].ret
        /\ d > c /\ calls[i][d].kind = "connect" /\ calls[i][d].busy
        /\ Has("extractProps", calls[i][d].trace)

(* the call reached _doRender *)
Renders(r) == r.kind = "reRender" \/ (r.kind = "connect" /\ r.trace # <<>>)

(* C11: the re-entrancy flag is set exactly while a render is in flight: *)
(* _rendering is true if and only if some _doRender of the instance has   *)
(* passed the guard and not yet returned or failed; so a request renders  *)
(* exactly when no render is in flight as it arrives, also after a        *)
(* render that threw or rejected.                                         *)
C11_FlagIffInFlight ==
    \A i \in Inst :
        /\ _rendering[i] <=> InFlight(i)
        /\ \A c \in 1..Len(calls[i]) :
              Renders(calls[i][c]) => (calls[i][c].ran <=> ~calls[i][c].busy)

(* a promise or generator render failed, and the next reRender rendered *)
C11_Witness ==
    \E i \in Inst : \E c, d \in 1..Len(calls[i]) :
        /\ c < d
        /\ render # "sync"
        /\ calls[i][c].threw
        /\ calls[i][d].kind = "reRender" /\ calls[i][d].ran
        /\ Has("render", calls[i][d].trace)

(* C12: connected() is invoked only while the instance is connected:     *)
(* every step in which a connect call reaches its connected() hook is    *)
(* taken with the connected flag set, so never after disconnectedCallback *)
(* has run and before the next connectedCallback.                         *)
C12_ConnectedOnlyWhileConnected ==
    [][\A i \in Inst : \A c \in 1..Len(calls[i]) :
          ( /\ calls[i][c].kind = "connect"
            /\ ~Has("connected", calls[i][c].trace)
            /\ c <= Len(calls'[i])
            /\ Has("connected", calls'[i][c].trace) )
          => _connected[i]]_vars

(* the connectedCallback or disconnectedCallback of the instance before call c, 0 if none *)
PrevLifecycle(i, c) ==
    LET S == {d \in 1..(c - 1) : calls[i][d].kind \in {"connect", "disconnect"}}
    IN  IF S = {} THEN 0 ELSE CHOOSE d \in S : \A e \in S : e <= d

(* the call did nothing *)
Ignored(r) == r.trace = <<>> /\ ~r.ran /\ ~r.busy /\ r.pc = "done"

(* the call ran the connect sequence up to the render request *)
RanConnectSequence(r) ==
    /\ Has("extractProps", r.trace) /\ Has("willConnect", r.trace) /\ Has("stylesheet", r.trace)
    /\ r.ran \/ r.busy

C13_GuardedByFlag ==
    \A i \in Inst :
        /\ _connected[i] <=>
              LET d == PrevLifecycle(i, Len(calls[i]) + 1)
              IN  d # 0 /\ calls[i][d].kind = "connect"
        /\ \A c \in 1..Len(calls[i]) :
              /\ calls[i][c].kind = "connect" =>
                    LET d == PrevLifecycle(i, c)
                    IN  IF d # 0 /\ calls[i][d].kind = "connect"
                        THEN Ignored(calls[i][c])
                        ELSE RanConnectSequence(calls[i][c])
              /\ calls[i][c].kind = "disconnect" => calls[i][c].trace = <<"disconnected">>

C13_ConnectStep ==
    \A i \in Inst :
        ( /\ Len(calls'[i]) = Len(calls[i]) + 1
          /\ calls'[i][Len(calls'[i])].kind = "connect" )
        => IF _connected[i]
           THEN /\ props'[i] = props[i] /\ head' = head /\ innerHTML'[i] = innerHTML[i]
                /\ _rendering'[i] = _rendering[i] /\ _connected'[i]
           ELSE /\ _connected'[i]
                /\ props'[i] = _extractProps(props[i], attributes[i])
                /\ head' # <<>>

(* C13: connectedCallback is guarded by the connected flag: a            *)
(* connectedCallback with no disconnectedCallback since the previous      *)
(* connectedCallback does nothing (no props extraction, willConnect,      *)
(* stylesheet, render or connected hook, no change of props, head or      *)
(* content); the first one, and the one after a disconnectedCallback      *)
(* (disconnected hook, flag cleared), runs the connect sequence.          *)
C13_ConnectGuarded == []C13_GuardedByFlag /\ [][C13_ConnectStep]_vars

(* a connectedCallback on an instance that is connected was ignored *)
C13_Witness ==
    \E i \in Inst : \E c \in 1..Len(calls[i]) :
        /\ calls[i][c].kind = "connect" /\ Ignored(calls[i][c])
        /\ PrevLifecycle(i, c) # 0
        /\ RanConnectSequence(calls[i][PrevLifecycle(i, c)])
        /\ _connected[i]

(* an instance was connected, disconnected and connected again *)
C13_Reconnected ==
    \E i \in Inst : \E c \in 1..Len(calls[i]) :
        /\ calls[i][c].kind = "connect" /\ RanConnectSequence(calls[i][c])
        /\ PrevLifecycle(i, c) # 0
        /\ calls[i][PrevLifecycle(i, c)].kind = "disconnect"

====
